---- MODULE Spec2Model ----
(***************************************************************************)
(* A model of vaspy/atomco.py: the AtomCo base class and its XyzFile,      *)
(* PosCar and XdatCar readers/writers.                                     *)
(*                                                                         *)
(* Text is modelled at the level the code reads it: a file is a sequence   *)
(* of lines, a formatted line is a sequence of fixed-width cells, and      *)
(* str2list splits a line on white space, so that two cells with no blank  *)
(* between them come back as ONE token.  A coordinate is an integer        *)
(* counting units of 10^-13, so that "{:18.12f}" has something to round.   *)
(***************************************************************************)
EXTENDS Integers, Sequences, FiniteSets, TLC

VARIABLES
    doc,      \* the document handed to the constructor (NoDoc before)
    sys,      \* the constructed object's attributes (NoSys before / on failure)
    fresh,    \* no method has been called on sys since its construction
    res,      \* outcome of the last call: [op, err, arg, val]
    file,     \* XDATCAR: the lines after the 7 header lines
    xntot,    \* XDATCAR: self.ntot, read from the header by XdatCar.load
    ragged,   \* the numpy build: np.array of rows of unequal length is an
              \* object array (TRUE, numpy < 1.24) or raises ValueError
    its,      \* XDATCAR: the generators made by __iter__, by caller
    fpos      \* XDATCAR: lines read so far through each open file handle

vars == <<doc, sys, fresh, res, file, xntot, ragged, its, fpos>>

(***************************************************************************)
(* Bounds of the model.                                                    *)
(***************************************************************************)
MaxRows == 3      \* coordinate rows present in a document
MaxTypes == 2     \* entries on the count line of a POSCAR
MaxCount == 2     \* largest per-type count on the count line
MaxLines == 4     \* XDATCAR lines after the header
MaxNtot == 2      \* XDATCAR: largest self.ntot

(***************************************************************************)
(* Program constants: the format strings' field widths.                    *)
(***************************************************************************)
LabelWidth == 5       \* "{:5s}"    atom labels
CountWidth == 5       \* "{:5d}"    atom counts
info_nline == 7       \* XdatCar.info_nline
HeaderLines == 7      \* POSCAR lines before content_list[7]

(***************************************************************************)
(* Python helpers.                                                         *)
(***************************************************************************)
Min(a, b) == IF a <= b THEN a ELSE b
Max(a, b) == IF a >= b THEN a ELSE b
Range(s) == {s[i] : i \in DOMAIN s}

RECURSIVE Sum(_)
Sum(s) == IF s = <<>> THEN 0 ELSE s[1] + Sum(Tail(s))

\* s[a:b] for 0 <= a, 0 <= b: out-of-range bounds are clipped, never an error
Slice(s, a, b) ==
    LET lo == Min(a, Len(s))
        hi == Min(b, Len(s))
    IN  IF hi <= lo THEN <<>> ELSE SubSeq(s, lo + 1, hi)

\* zip(a, b): as long as the shorter argument
Zip(a, b) == [i \in 1..Min(Len(a), Len(b)) |-> <<a[i], b[i]>>]

RECURSIVE Concat(_)
Concat(ss) == IF ss = <<>> THEN <<>> ELSE ss[1] \o Concat(Tail(ss))

\* the number of characters of str(n), n >= 0
RECURSIVE NumWidth(_)
NumWidth(n) == IF n < 10 THEN 1 ELSE 1 + NumWidth(n \div 10)

RECURSIVE Pow10(_)
Pow10(k) == IF k = 0 THEN 1 ELSE 10 * Pow10(k - 1)

(***************************************************************************)
(* Lines of text.  A cell is a token with the blanks before and after it.  *)
(***************************************************************************)
\* "{:5s}".format(s): left-aligned, padded to the width, never cut
FmtStr(s, w) == [tok |-> s, lead |-> 0, trail |-> Max(0, w - Len(s))]
\* "{:5d}".format(n): right-aligned, padded to the width, never cut
FmtInt(n, w) == [tok |-> n, lead |-> Max(0, w - NumWidth(n)), trail |-> 0]
\* a token as a person or another program writes it: blank-separated
Word(t) == [tok |-> t, lead |-> 0, trail |-> 1]
Words(ts) == [i \in DOMAIN ts |-> Word(ts[i])]

\* str2list on a line of string cells: cells that touch are one token
RECURSIVE str2list(_)
str2list(cells) ==
    IF Len(cells) <= 1 THEN [i \in DOMAIN cells |-> cells[i].tok]
    ELSE IF cells[1].trail + cells[2].lead = 0
         THEN str2list(<<[tok |-> cells[1].tok \o cells[2].tok,
                          lead |-> cells[1].lead,
                          trail |-> cells[2].trail]>> \o Tail(Tail(cells)))
         ELSE <<cells[1].tok>> \o str2list(Tail(cells))

\* str2list followed by int() on a line of number cells
RECURSIVE str2ints(_)
str2ints(cells) ==
    IF Len(cells) <= 1 THEN [i \in DOMAIN cells |-> cells[i].tok]
    ELSE IF cells[1].trail + cells[2].lead = 0
         THEN str2ints(<<[tok |-> cells[1].tok * Pow10(NumWidth(cells[2].tok))
                                   + cells[2].tok,
                          lead |-> cells[1].lead,
                          trail |-> cells[2].trail]>> \o Tail(Tail(cells)))
         ELSE <<cells[1].tok>> \o str2ints(Tail(cells))

\* "{:18.12f}" then float(): the value rounded to 12 decimals, that is to
\* a multiple of 10 units (half to even; coordinates here are >= 0 and
\* below 10, so that the 18-wide fields of a row never touch, and the
\* one-character flags never fill their 5-wide fields)
Round12(v) ==
    LET q == v \div 10
        r == v % 10
    IN  IF r < 5 THEN 10 * q
        ELSE IF r > 5 THEN 10 * (q + 1)
        ELSE IF q % 2 = 0 THEN 10 * q ELSE 10 * (q + 1)

(***************************************************************************)
(* Documents.  A POSCAR is its label line (line 5), its count line (line   *)
(* 6) and the lines from content_list[7] on; a line of that body is a      *)
(* piece of text (txt # "") or a coordinate row with 0 or 3 flags.  An     *)
(* xyz file is its declared total, its step and its data rows.             *)
(***************************************************************************)
NoDoc == [kind |-> "none"]
NoSys == [cls |-> "none"]
NoVal == <<>>

TextLine(t) == [txt |-> t, co |-> <<>>, tf |-> <<>>]
RowLine(co, tf) == [txt |-> "", co |-> co, tf |-> tf]
Identity3 == <<<<1, 0, 0>>, <<0, 1, 0>>, <<0, 0, 1>>>>

\* the coordinates written on the k-th data row of an input document; the
\* even rows carry a 13th decimal
RowCoord(k) == <<10 * k, 0, IF k % 2 = 0 THEN 10 * k + 3 ELSE 10 * k>>

SeqsUpTo(S, n) == UNION {[1..k -> S] : k \in 0..n}

LabelLines == {<<"Pt">>, <<"Pt", "O">>, <<"Pt", "Pt">>, <<"Pt_pv", "O">>}
CountLines == SeqsUpTo(1..MaxCount, MaxTypes) \ {<<>>}
\* the flags on the rows of a document with a selective-dynamics line
FileFlags == <<"F", "F", "T">>

PosCarDocs ==
    { [kind |-> "poscar", scale |-> 1, bases |-> Identity3,
       atoms_line |-> Words(ls), num_line |-> Words(cs),
       body |-> (IF sel THEN <<TextLine("Selective Dynamics")>> ELSE <<>>)
                \o <<TextLine("Direct")>>
                \o [k \in 1..n |->
                      RowLine(RowCoord(k), IF sel THEN FileFlags ELSE <<>>)]] :
      ls \in LabelLines, cs \in CountLines, sel \in BOOLEAN, n \in 0..MaxRows }

XyzDocs ==
    { [kind |-> "xyz", ntot |-> n, step |-> 3,
       rows |-> [k \in DOMAIN ls |-> [label |-> ls[k], co |-> RowCoord(k)]]] :
      n \in 0..(MaxRows + 1), ls \in SeqsUpTo({"H", "O"}, MaxRows) }

(***************************************************************************)
(* AtomCo                                                                  *)
(***************************************************************************)
\* natoms = zip(atoms, atoms_num): a list under Python 2; under Python 3
\* (lazy) an iterator, which is empty once it has been run through
MkNatoms(atoms, atoms_num, lazy) ==
    [pairs |-> Zip(atoms, atoms_num), lazy |-> lazy, spent |-> FALSE]

\* [0] + [sum(atoms_num[:i]) for i in range(1, len(atoms)+1)]
IdxList(o) == [k \in 1..(Len(o.atoms) + 1) |-> Sum(Slice(o.atoms_num, 0, k - 1))]

\* the first position of label a in atoms (dict.setdefault keeps the first)
FirstIdx(o, a) ==
    CHOOSE i \in DOMAIN o.atoms :
        o.atoms[i] = a /\ \A j \in 1..(i - 1) : o.atoms[j] # a

\* verify as it would be if it let every object through
verify_never(o) == "none"

\* AtomCo.verify: the error it raises, or "none"
verify(o) == IF Len(o.data) # o.ntot THEN "CarfileValueError" ELSE "none"

\* the grouping as it would be with each slice begun one row late
group_by_type_late(o, rows) ==
    LET idx == IdxList(o)
    IN  [a \in Range(o.atoms) |->
            Slice(rows, idx[FirstIdx(o, a)] + 1, idx[FirstIdx(o, a) + 1])]

\* AtomCo.get_atomco_dict(data) and AtomCo.get_tf_dict(tf): the same code
group_by_type(o, rows) ==
    LET idx == IdxList(o)
    IN  [a \in Range(o.atoms) |->
            Slice(rows, idx[FirstIdx(o, a)], idx[FirstIdx(o, a) + 1])]

get_atomco_dict(o, data) == group_by_type(o, data)
get_tf_dict(o, tf) == group_by_type(o, tf)

(***************************************************************************)
(* XyzFile                                                                 *)
(***************************************************************************)
\* the labels of a list in first-seen order, each once
RECURSIVE FirstSeen(_, _)
FirstSeen(labels, acc) ==
    IF labels = <<>> THEN acc
    ELSE FirstSeen(Tail(labels),
                   IF Head(labels) \in Range(acc) THEN acc
                   ELSE Append(acc, Head(labels)))

\* list.count
Count(labels, a) == Cardinality({i \in DOMAIN labels : labels[i] = a})

\* XyzFile.load.  With no data row np.array([]) is one-dimensional and
\* data_array[:, 0] raises IndexError.
XyzFile_load(d, lazy) ==
    IF d.rows = <<>> THEN [err |-> "IndexError", obj |-> NoSys]
    ELSE
    LET atoms_list == [k \in DOMAIN d.rows |-> d.rows[k].label]
        data == [k \in DOMAIN d.rows |-> d.rows[k].co]
        atoms == FirstSeen(atoms_list, <<>>)
        atoms_num == [i \in DOMAIN atoms |-> Count(atoms_list, atoms[i])]
    IN  [err |-> "none",
         obj |-> [cls |-> "XyzFile", ntot |-> d.ntot, step |-> d.step,
                  atoms |-> atoms, atoms_num |-> atoms_num,
                  natoms |-> MkNatoms(atoms, atoms_num, lazy),
                  data |-> data, tf |-> <<>>,
                  bases_const |-> 0, bases |-> <<>>, totline |-> 0]]

\* a constructor: load(), then verify(); the caller gets the object only
\* when neither raises
Construct(loaded) ==
    IF loaded.err # "none" THEN loaded
    ELSE IF verify(loaded.obj) # "none"
         THEN [err |-> verify(loaded.obj), obj |-> NoSys]
         ELSE loaded

\* XyzFile.__init__
XyzFile(d, lazy) == Construct(XyzFile_load(d, lazy))

(***************************************************************************)
(* PosCar                                                                  *)
(***************************************************************************)
\* content_list[7][0] in 'Ss'
StartsWithS(line) == line.txt \in {"Selective Dynamics", "selective dynamics"}

\* PosCar.load.  float() of a piece of text raises ValueError.
PosCar_load(d, lazy) ==
    IF d.body = <<>> THEN [err |-> "IndexError", obj |-> NoSys]
    ELSE
    LET atoms == str2list(d.atoms_line)
        atoms_num == str2ints(d.num_line)
        data_begin == IF StartsWithS(d.body[1]) THEN 9 ELSE 8
        ntot == Sum(atoms_num)
        lines == Slice(d.body, data_begin - HeaderLines,
                       data_begin - HeaderLines + ntot)
    IN  IF \E k \in DOMAIN lines : lines[k].txt # ""
        THEN [err |-> "ValueError", obj |-> NoSys]
        ELSE [err |-> "none",
              obj |-> [cls |-> "PosCar", ntot |-> ntot, step |-> 0,
                       atoms |-> atoms, atoms_num |-> atoms_num,
                       natoms |-> MkNatoms(atoms, atoms_num, lazy),
                       data |-> [k \in DOMAIN lines |-> lines[k].co],
                       tf |-> [k \in DOMAIN lines |->
                                 IF Len(lines[k].tf) > 0 THEN lines[k].tf
                                 ELSE <<"T", "T", "T">>],
                       bases_const |-> d.scale, bases |-> d.bases,
                       totline |-> data_begin + ntot]]

\* PosCar.__init__
PosCar(d, lazy) == Construct(PosCar_load(d, lazy))

\* the columns constrain_atom writes for an axis argument
AxisCols(axis) ==
    IF axis \in {"x", "X"} THEN {1}
    ELSE IF axis \in {"y", "Y"} THEN {2}
    ELSE IF axis \in {"z", "Z"} THEN {3}
    ELSE {1, 2, 3}

\* the flags of o with the rows of the first block labelled atom set to to
\* on the axis' columns
WriteFlags(o, atom, to, axis) ==
    LET idx == IdxList(o)
        i == FirstIdx(o, atom)
    IN  [r \in DOMAIN o.tf |->
           IF idx[i] < r /\ r <= idx[i + 1]
           THEN [c \in 1..3 |-> IF c \in AxisCols(axis) THEN to ELSE o.tf[r][c]]
           ELSE o.tf[r]]

\* constrain_atom as it would be with the flag checked after the writes
constrain_atom_late(o, atom, to, axis) ==
    LET wrote == IF atom \in Range(o.atoms)
                 THEN [o EXCEPT !.tf = WriteFlags(o, atom, to, axis)]
                 ELSE o
    IN  IF to \notin {"T", "F"} THEN [err |-> "CarfileValueError", obj |-> wrote]
        ELSE [err |-> "none", obj |-> wrote]

\* PosCar.constrain_atom(atom, to, axis): the error and the object after it
constrain_atom(o, atom, to, axis) ==
    IF to \notin {"T", "F"} THEN [err |-> "CarfileValueError", obj |-> o]
    ELSE IF atom \notin Range(o.atoms) THEN [err |-> "none", obj |-> o]
    ELSE [err |-> "none", obj |-> [o EXCEPT !.tf = WriteFlags(o, atom, to, axis)]]

(***************************************************************************)
(* Serialization                                                           *)
(***************************************************************************)
\* AtomCo.get_poscar_content on an object that has bases and tf: the error,
\* the text, and the object after the call.  zip(*self.natoms) runs natoms
\* out when it is an iterator, and unpacking nothing raises ValueError.
get_poscar_content(o) ==
    LET live == IF o.natoms.lazy /\ o.natoms.spent THEN <<>> ELSE o.natoms.pairs
        after == [o EXCEPT !.natoms.spent = o.natoms.lazy]
    IN  IF live = <<>> THEN [err |-> "ValueError", val |-> NoVal, obj |-> after]
        ELSE [err |-> "none", obj |-> after,
              val |-> [kind |-> "poscar", scale |-> o.bases_const,
                       bases |-> o.bases,
                       atoms_line |-> [i \in DOMAIN live |->
                                         FmtStr(live[i][1], LabelWidth)],
                       num_line |-> [i \in DOMAIN live |->
                                       FmtInt(live[i][2], CountWidth)],
                       body |-> <<TextLine("Selective Dynamics"),
                                  TextLine("Direct")>>
                                \o [k \in 1..Min(Len(o.data), Len(o.tf)) |->
                                      RowLine([c \in 1..3 |-> Round12(o.data[k][c])],
                                              o.tf[k])]]]

\* atomdict2str(atomco_dict, atoms): the rows of each type's list, in the
\* order of atoms, each with its label
atomdict2str(dict, atoms) ==
    Concat([i \in DOMAIN atoms |->
              [k \in DOMAIN dict[atoms[i]] |->
                 [label |-> atoms[i], co |-> dict[atoms[i]][k]]]])

\* AtomCo.get_xyz_content: step is self.step, or 1 when there is none
get_xyz_content(o) ==
    [err |-> "none", obj |-> o,
     val |-> [kind |-> "xyz", ntot |-> o.ntot,
              step |-> IF o.cls = "XyzFile" THEN o.step ELSE 1,
              rows |-> atomdict2str(get_atomco_dict(o, o.data), o.atoms)]]

\* XyzFile.get_content / PosCar.get_content
get_content(o) ==
    IF o.cls = "PosCar" THEN get_poscar_content(o) ELSE get_xyz_content(o)

(***************************************************************************)
(* The life of one object: construction, then any calls.                   *)
(***************************************************************************)
Result(op, err, arg, val) == [op |-> op, err |-> err, arg |-> arg, val |-> val]

AtomArgs == {"Pt", "O", "Au"}
FlagArgs == {"T", "F", "M"}
AxisArgs == {"x", "y", "z", "all"}
\* a row sequence of n rows handed to get_atomco_dict / get_tf_dict: one
\* row short of the object's total, as long, or one row longer
RowsArg(n) == [k \in 1..n |-> <<100 + k, 0, 0>>]
ArgLens(o) == {n \in {o.ntot - 1, o.ntot, o.ntot + 1} : n >= 0}

\* no XDATCAR is open while a POSCAR or xyz object is followed
XdatIdle == file = <<>> /\ xntot = 0 /\ ragged = TRUE /\ its = <<>> /\ fpos = <<>>

NewPosCar(d, lazy) ==
    /\ doc.kind = "none"
    /\ doc' = d
    /\ sys' = PosCar(d, lazy).obj
    /\ res' = Result("PosCar", PosCar(d, lazy).err, NoVal, NoVal)
    /\ UNCHANGED <<fresh, file, xntot, ragged, its, fpos>>

NewXyzFile(d, lazy) ==
    /\ doc.kind = "none"
    /\ doc' = d
    /\ sys' = XyzFile(d, lazy).obj
    /\ res' = Result("XyzFile", XyzFile(d, lazy).err, NoVal, NoVal)
    /\ UNCHANGED <<fresh, file, xntot, ragged, its, fpos>>

ConstrainAtom(atom, to, axis) ==
    /\ sys.cls = "PosCar"
    /\ sys' = constrain_atom(sys, atom, to, axis).obj
    /\ res' = Result("constrain_atom", constrain_atom(sys, atom, to, axis).err,
                     NoVal, NoVal)
    /\ fresh' = FALSE
    /\ UNCHANGED <<doc, file, xntot, ragged, its, fpos>>

\* XyzFile has no constrain_atom: the call raises AttributeError
ConstrainAtomXyz ==
    /\ sys.cls = "XyzFile"
    /\ res' = Result("constrain_atom", "AttributeError", NoVal, NoVal)
    /\ fresh' = FALSE
    /\ UNCHANGED <<doc, sys, file, xntot, ragged, its, fpos>>

GetContent ==
    /\ sys.cls # "none"
    /\ sys' = get_content(sys).obj
    /\ res' = Result("get_content", get_content(sys).err, NoVal,
                     get_content(sys).val)
    /\ fresh' = FALSE
    /\ UNCHANGED <<doc, file, xntot, ragged, its, fpos>>

\* tofile(), then PosCar() on the file written: res.val is the new object,
\* res.arg tells whether this was the first call on sys
Reparse ==
    /\ sys.cls = "PosCar"
    /\ sys' = get_poscar_content(sys).obj
    /\ res' = IF get_poscar_content(sys).err # "none"
              THEN Result("reparse", get_poscar_content(sys).err, fresh, NoSys)
              ELSE Result("reparse",
                          PosCar(get_poscar_content(sys).val, sys.natoms.lazy).err,
                          fresh,
                          PosCar(get_poscar_content(sys).val, sys.natoms.lazy).obj)
    /\ fresh' = FALSE
    /\ UNCHANGED <<doc, file, xntot, ragged, its, fpos>>

GetAtomcoDict(n) ==
    /\ sys.cls # "none"
    /\ n \in ArgLens(sys)
    /\ res' = Result("get_atomco_dict", "none", RowsArg(n),
                     get_atomco_dict(sys, RowsArg(n)))
    /\ fresh' = FALSE
    /\ UNCHANGED <<doc, sys, file, xntot, ragged, its, fpos>>

GetTfDict(n) ==
    /\ sys.cls # "none"
    /\ n \in ArgLens(sys)
    /\ res' = Result("get_tf_dict", "none", RowsArg(n),
                     get_tf_dict(sys, RowsArg(n)))
    /\ fresh' = FALSE
    /\ UNCHANGED <<doc, sys, file, xntot, ragged, its, fpos>>

Init ==
    /\ doc = NoDoc
    /\ sys = NoSys
    /\ fresh = TRUE
    /\ res = Result("none", "none", NoVal, NoVal)
    /\ XdatIdle

Next ==
    \/ \E d \in PosCarDocs, lazy \in BOOLEAN : NewPosCar(d, lazy)
    \/ \E d \in XyzDocs, lazy \in BOOLEAN : NewXyzFile(d, lazy)
    \/ \E a \in AtomArgs, t \in FlagArgs, x \in AxisArgs : ConstrainAtom(a, t, x)
    \/ ConstrainAtomXyz
    \/ GetContent
    \/ Reparse
    \/ \E n \in 0..(MaxRows + 1) : GetAtomcoDict(n)
    \/ \E n \in 0..(MaxRows + 1) : GetTfDict(n)

Spec == Init /\ [][Next]_vars

(***************************************************************************)
(* Properties of XyzFile and PosCar objects, checked under Spec.           *)
(***************************************************************************)
\* the rows of block i: positions (sum(atoms_num[:i-1]), sum(atoms_num[:i])]
BlockRows(o, i) ==
    {r \in 1..Len(o.data) :
        Sum(Slice(o.atoms_num, 0, i - 1)) < r /\ r <= Sum(Slice(o.atoms_num, 0, i))}

\* C1: after a successful XyzFile parse, the coordinates in block i are
\* exactly those of the document's rows labelled atoms[i], whatever the
\* order of the rows in the document.
C1_BlocksHoldTheirType ==
    sys.cls = "XyzFile" =>
        \A i \in DOMAIN sys.atoms :
            {sys.data[r] : r \in BlockRows(sys, i)}
            = {doc.rows[k].co : k \in {j \in DOMAIN doc.rows :
                                         doc.rows[j].label = sys.atoms[i]}}

\* C2: in every state of a constructed PosCar or XyzFile, whatever calls
\* followed, ntot = sum(atoms_num) = len(data), and = len(tf) where tf exists.
C2_TotalsAgree ==
    sys.cls # "none" =>
        /\ sys.ntot = Sum(sys.atoms_num)
        /\ sys.ntot = Len(sys.data)
        /\ sys.cls = "PosCar" => Len(sys.tf) = sys.ntot

C2_Witness ==
    /\ sys.cls = "PosCar"
    /\ res.op = "get_content"
    /\ \E r \in DOMAIN sys.tf : sys.tf[r] = <<"F", "T", "T">>
    /\ sys.ntot = MaxRows

\* C3: for every constructed system, the lists get_atomco_dict(data) gives
\* the labels of atoms, taken in the order of atoms, make up data again.
C3_GroupsMakeUpData ==
    sys.cls # "none" =>
        Concat([i \in DOMAIN sys.atoms |->
                  get_atomco_dict(sys, sys.data)[sys.atoms[i]]]) = sys.data

\* C4: XyzFile() on a document whose declared total differs from its number
\* of data rows raises CarfileValueError and returns no object; when the two
\* are equal it succeeds.
C4_DeclaredTotalChecked ==
    res.op = "XyzFile" =>
        IF doc.ntot # Len(doc.rows)
        THEN res.err = "CarfileValueError" /\ sys.cls = "none"
        ELSE res.err = "none" /\ sys.cls = "XyzFile"

\* the rows that belong to a label: those of every block the label heads
RowsOfType(o, a) ==
    UNION {BlockRows(o, i) : i \in {j \in DOMAIN o.atoms : o.atoms[j] = a}}

AxisOf(x) == CASE x = "x" -> {1} [] x = "y" -> {2} [] x = "z" -> {3}
               [] x = "all" -> {1, 2, 3}

\* C5: constrain_atom(atom, flag, axis) with flag T or F succeeds, sets the
\* axis' column(s) of the flags of every row of that type to flag, and
\* changes nothing else (nothing at all when the type is absent).
C5_ConstrainSetsTheTypesRows ==
    [][\A a \in AtomArgs, t \in {"T", "F"}, x \in AxisArgs :
         ConstrainAtom(a, t, x) =>
            /\ res'.err = "none"
            /\ [sys' EXCEPT !.tf = sys.tf] = sys
            /\ DOMAIN sys'.tf = DOMAIN sys.tf
            /\ \A r \in DOMAIN sys.tf, c \in 1..3 :
                 sys'.tf[r][c] = IF r \in RowsOfType(sys, a) /\ c \in AxisOf(x)
                                 THEN t ELSE sys.tf[r][c]]_vars

\* C6: constrain_atom with a flag other than T and F raises
\* CarfileValueError, for every atom and axis, and leaves the object as it was.
C6_BadFlagRejected ==
    [][\A a \in AtomArgs, t \in FlagArgs \ {"T", "F"}, x \in AxisArgs :
         ConstrainAtom(a, t, x) =>
            res'.err = "CarfileValueError" /\ sys' = sys]_vars

C6_Witness ==
    /\ sys.cls = "PosCar"
    /\ res.op = "constrain_atom"
    /\ res.err = "CarfileValueError"
    /\ \E r \in DOMAIN sys.tf : sys.tf[r] = <<"T", "F", "T">>

\* C9: a POSCAR without selective-dynamics line and flags, parsed, written
\* by get_poscar_content and parsed again, gives the same atoms, atoms_num,
\* ntot and data (to the 12 decimals written), all-T flags, and a data
\* block that begins one line later.
C9_RoundTrip ==
    (res.op = "reparse" /\ res.arg = TRUE /\ ~StartsWithS(doc.body[1])) =>
        /\ res.err = "none"
        /\ res.val.cls = "PosCar"
        /\ res.val.atoms = sys.atoms
        /\ res.val.atoms_num = sys.atoms_num
        /\ res.val.ntot = sys.ntot
        /\ res.val.data = [r \in DOMAIN sys.data |->
                              [c \in 1..3 |-> Round12(sys.data[r][c])]]
        /\ \A r \in DOMAIN res.val.tf : res.val.tf[r] = <<"T", "T", "T">>
        /\ res.val.totline = sys.totline + 1

\* C10: get_atomco_dict / get_tf_dict on a row sequence whose length is not
\* ntot raise ShapeMismatch, and return a mapping only when it is ntot.
C10_ShapeMismatchRaised ==
    res.op \in {"get_atomco_dict", "get_tf_dict"} =>
        (res.err = "none" <=> Len(res.arg) = sys.ntot)

\* C10 as amended: on a row sequence of any length they raise nothing and
\* return, for each label of atoms, the rows that exist at the positions of
\* the first block with that label.
C10_GroupingNeverRaises ==
    res.op \in {"get_atomco_dict", "get_tf_dict"} =>
        /\ res.err = "none"
        /\ DOMAIN res.val = Range(sys.atoms)
        /\ \A i \in DOMAIN sys.atoms :
             (\A j \in 1..(i - 1) : sys.atoms[j] # sys.atoms[i]) =>
                LET lo == Sum(Slice(sys.atoms_num, 0, i - 1))
                    hi == Sum(Slice(sys.atoms_num, 0, i))
                    got == res.val[sys.atoms[i]]
                IN  /\ Len(got) = Cardinality({p \in DOMAIN res.arg : lo < p /\ p <= hi})
                    /\ \A k \in DOMAIN got : got[k] = res.arg[lo + k]

C10_Witness ==
    /\ res.op = "get_atomco_dict"
    /\ Len(res.arg) = sys.ntot + 1
    /\ Len(sys.atoms) = 2
    /\ \A a \in Range(sys.atoms) : Len(res.val[a]) > 0

\* C11: get_content, get_atomco_dict and get_tf_dict on a parsed object
\* leave every field of it as it was (atoms, atoms_num, natoms, data, tf,
\* bases), and a get_content that follows a successful get_content raises
\* nothing and returns the same text.
C11_SerializationReadOnly ==
    [][(/\ sys.cls # "none"
        /\ \/ GetContent
           \/ \E n \in 0..(MaxRows + 1) : GetAtomcoDict(n) \/ GetTfDict(n))
       => /\ sys' = sys
          /\ (GetContent /\ res.op = "get_content" /\ res.err = "none")
                => (res'.err = "none" /\ res'.val = res.val)]_vars

(***************************************************************************)
(* XdatCar.  A line after the header is one of                             *)
(*   "P1", "P2"  a prompt with '=' and the integer 1 or 2 after it,        *)
(*   "PX"        a line with '=' and no integer after it,                  *)
(*   "R"         a row of three numbers,                                   *)
(*   "B"         a blank line,                                             *)
(* and readline() gives "" at the end of the file.                         *)
(***************************************************************************)
XLines == {"P1", "P2", "PX", "R", "B"}
XFiles == SeqsUpTo(XLines, MaxLines)
Callers == {1, 2}

\* '=' in prompt
HasEq(l) == l \in {"P1", "P2", "PX"}

\* int(prompt.split('=')[-1]): the step, or ValueError
StepOf(l) ==
    IF l = "P1" THEN [err |-> "none", val |-> 1]
    ELSE IF l = "P2" THEN [err |-> "none", val |-> 2]
    ELSE [err |-> "ValueError", val |-> 0]

\* line2list(line): the floats of the line; a token that is no number
\* (every line with '=' has one) raises ValueError
line2list(l) ==
    IF l = "R" THEN [err |-> "none", val |-> <<"x", "y", "z">>]
    ELSE IF HasEq(l) THEN [err |-> "ValueError", val |-> <<>>]
    ELSE [err |-> "none", val |-> <<>>]

\* the line readline() returns after p lines were read
LineAt(p) ==
    IF p < info_nline THEN "header"
    ELSE IF p - info_nline + 1 <= Len(file) THEN file[p - info_nline + 1]
    ELSE ""

\* np.array(data) raises on rows of unequal length, in a build that does
RaggedError(data) ==
    /\ ~ragged
    /\ \E i, j \in DOMAIN data : Len(data[i]) # Len(data[j])

NewGen == [pc |-> "new", prompt |-> "", out |-> <<>>, err |-> "none"]
NoGen == [pc |-> "none", prompt |-> "", out |-> <<>>, err |-> "none"]

\* the handle as it would be if the object kept one open file for all
HandleOf_shared(i) == 1

\* the file handle a caller's generator reads through: its own, opened by
\* the with statement when the generator first runs
HandleOf(i) == i

\* the generator as it would be if it read one row too few per frame
RunToYield_short(g, p) ==
    IF ~HasEq(g.prompt) THEN [gen |-> [g EXCEPT !.pc = "done"], pos |-> p]
    ELSE IF StepOf(g.prompt).err # "none"
    THEN [gen |-> [g EXCEPT !.pc = "error", !.err = StepOf(g.prompt).err],
          pos |-> p]
    ELSE
    LET n == xntot - 1
        rows == [k \in 1..n |-> line2list(LineAt(p + k - 1))]
        data == [k \in 1..n |-> rows[k].val]
    IN  IF \E k \in 1..n : rows[k].err # "none"
        THEN [gen |-> [g EXCEPT !.pc = "error", !.err = "ValueError"],
              pos |-> p + n]
        ELSE [gen |-> [g EXCEPT !.pc = "open",
                                !.prompt = LineAt(p + n),
                                !.out = Append(g.out,
                                               <<StepOf(g.prompt).val, data>>)],
              pos |-> p + n + 1]

\* the generator from its loop test to its next yield, return or raise,
\* with p lines read so far: the generator and the lines read after it
RunToYield(g, p) ==
    IF ~HasEq(g.prompt) THEN [gen |-> [g EXCEPT !.pc = "done"], pos |-> p]
    ELSE IF StepOf(g.prompt).err # "none"
    THEN [gen |-> [g EXCEPT !.pc = "error", !.err = StepOf(g.prompt).err],
          pos |-> p]
    ELSE
    LET rows == [k \in 1..xntot |-> line2list(LineAt(p + k - 1))]
        data == [k \in 1..xntot |-> rows[k].val]
    IN  IF \E k \in 1..xntot : rows[k].err # "none"
        THEN [gen |-> [g EXCEPT !.pc = "error", !.err = "ValueError"],
              pos |-> p + (CHOOSE k \in 1..xntot :
                             /\ rows[k].err # "none"
                             /\ \A j \in 1..(k - 1) : rows[j].err = "none")]
        ELSE IF RaggedError(data)
        THEN [gen |-> [g EXCEPT !.pc = "error", !.err = "ValueError",
                                !.prompt = LineAt(p + xntot)],
              pos |-> p + xntot + 1]
        ELSE [gen |-> [g EXCEPT !.pc = "open",
                                !.prompt = LineAt(p + xntot),
                                !.out = Append(g.out,
                                               <<StepOf(g.prompt).val, data>>)],
              pos |-> p + xntot + 1]

\* next() on a generator of XdatCar.__iter__.  The first call opens the
\* file, reads the info_nline header lines and the first prompt.
next_frame(g, p) ==
    IF g.pc = "new"
    THEN RunToYield([g EXCEPT !.prompt = LineAt(info_nline)], info_nline + 1)
    ELSE RunToYield(g, p)

\* iter(xdatcar): a new generator; nothing of it runs yet
Iter(i) ==
    /\ i \in DOMAIN its
    /\ its' = [its EXCEPT ![i] = NewGen]
    /\ UNCHANGED <<doc, sys, fresh, res, file, xntot, ragged, fpos>>

\* iter(xdatcar), for a caller that has not iterated before
IterOnce(i) == its[i].pc = "none" /\ Iter(i)

Pull(i) ==
    /\ i \in DOMAIN its
    /\ its[i].pc \in {"new", "open"}
    /\ its' = [its EXCEPT ![i] = next_frame(its[i], fpos[HandleOf(i)]).gen]
    /\ fpos' = [fpos EXCEPT ![HandleOf(i)] =
                    next_frame(its[i], fpos[HandleOf(i)]).pos]
    /\ UNCHANGED <<doc, sys, fresh, res, file, xntot, ragged>>

InitIter ==
    /\ doc = NoDoc
    /\ sys = NoSys
    /\ fresh = TRUE
    /\ res = Result("none", "none", NoVal, NoVal)
    /\ file \in XFiles
    /\ xntot \in 1..MaxNtot
    /\ ragged \in BOOLEAN
    /\ its = [i \in Callers |-> NoGen]
    /\ fpos = [i \in Callers |-> 0]

NextIter == \E i \in Callers : Iter(i) \/ Pull(i)

\* two callers iterate over one XdatCar, each again and again
SpecIter == InitIter /\ [][NextIter]_vars

NextOnce == IterOnce(1) \/ Pull(1)

\* one caller iterates once and keeps pulling
FairIter == InitIter /\ [][NextOnce]_vars /\ WF_vars(Pull(1))

(***************************************************************************)
(* Properties of XdatCar iteration, read off the file itself.              *)
(***************************************************************************)
\* the j-th line after the header, "" past the end
BodyLine(j) == IF j <= Len(file) THEN file[j] ELSE ""

\* the xntot lines after the prompt at j, as rows: empty where the line is
\* blank or missing
BlockAfter(j) ==
    [k \in 1..xntot |-> IF BodyLine(j + k) = "R" THEN <<"x", "y", "z">> ELSE <<>>]

\* the frame at j cannot be read: no integer after the '=', a line with
\* '=' among its rows, or rows and blanks mixed where numpy refuses that
Malformed(j) ==
    \/ BodyLine(j) = "PX"
    \/ \E k \in 1..xntot : BodyLine(j + k) \in {"P1", "P2", "PX"}
    \/ /\ ~ragged
       /\ \E k, m \in 1..xntot : BodyLine(j + k) = "R" /\ BodyLine(j + m) # "R"

\* one frame per consecutive prompt line with '=', from the prompt at j on
RECURSIVE PromptFrames(_)
PromptFrames(j) ==
    IF BodyLine(j) \notin {"P1", "P2", "PX"} THEN <<>>
    ELSE <<<<IF BodyLine(j) = "P1" THEN 1 ELSE 2, BlockAfter(j)>>>>
         \o PromptFrames(j + xntot + 1)

\* the same, up to the first malformed frame
RECURSIVE GoodFrames(_)
GoodFrames(j) ==
    IF BodyLine(j) \notin {"P1", "P2", "PX"} \/ Malformed(j) THEN <<>>
    ELSE <<<<IF BodyLine(j) = "P1" THEN 1 ELSE 2, BlockAfter(j)>>>>
         \o GoodFrames(j + xntot + 1)

\* does the run of frames from j end at a malformed one
RECURSIVE EndsMalformed(_)
EndsMalformed(j) ==
    IF BodyLine(j) \notin {"P1", "P2", "PX"} THEN FALSE
    ELSE IF Malformed(j) THEN TRUE
    ELSE EndsMalformed(j + xntot + 1)

IsPrefix(a, b) == Len(a) <= Len(b) /\ a = SubSeq(b, 1, Len(a))

C7_Yielded ==
    /\ IsPrefix(its[1].out, GoodFrames(1))
    /\ \A k \in DOMAIN its[1].out : Len(its[1].out[k][2]) = xntot
    /\ its[1].pc = "done" =>
          /\ its[1].out = GoodFrames(1)
          /\ ~EndsMalformed(1)
          /\ its[1].out = PromptFrames(1)
    /\ its[1].pc = "error" =>
          /\ its[1].out = GoodFrames(1)
          /\ EndsMalformed(1)
          /\ its[1].err = "ValueError"

C8_IterationsIndependent ==
    \A i \in Callers :
        /\ IsPrefix(its[i].out, GoodFrames(1))
        /\ its[i].pc = "open" => its[i].out # <<>>
        /\ its[i].pc \in {"done", "error"} =>
              /\ its[i].out = GoodFrames(1)
              /\ (its[i].pc = "error") = EndsMalformed(1)

\* one caller has two frames, the other has begun again and has one
C8_Witness ==
    /\ its[1].pc = "open"
    /\ Len(its[1].out) = 2
    /\ its[2].pc = "open"
    /\ Len(its[2].out) = 1
    /\ its[1].out[1] # its[1].out[2]

====
